---- MODULE Spec2Model ----
(***************************************************************************)
(* The 'id' mode of shellfish (cmd/id.go): ReadConfig and validate build   *)
(* an IDConfig from an id.config file, Run resolves the selection to       *)
(* (HaloID, snapshot) rows, tags overlapping halos, filters and multiplies *)
(* the rows.  The memo, halo and catalog packages are not part of the      *)
(* sources at hand; what Run needs from them is modelled after the         *)
(* specification (sections 4.2, 4.3, 6) and marked as such.                *)
(***************************************************************************)
EXTENDS Integers, Sequences, FiniteSets, TLC

(***************************************************************************)
(* Bounds of the explored inputs.                                          *)
(***************************************************************************)
\* halo IDs, mass ranks, IDStart and IDEnd are drawn from 0..MaxID
MaxID == 2
\* longest IDs list of a configuration file
MaxLen == 2
\* largest Mult of a configuration file
MaxMult == 3
\* largest catalog (number of halos of the snapshot)
MaxHalos == 2
\* gConfig.SnapMin and gConfig.SnapMax of the global configuration
SnapMin == 1
SnapMax == 2

VARIABLES
    fname,      \* argument of ReadConfig: "" when no id.config is given
    file,       \* the variables the id.config file sets: <<>> unset, <<v>> set
    catalog,    \* storage: HaloIDs of the configured snapshot, by descending mass
    pc,         \* position of the caller: ReadConfig, Run, Resolve, Exclude, Generate, Done
    config,     \* the IDConfig
    rawIds,     \* Run: rawIds
    ids,        \* Run: ids
    snaps,      \* Run: snaps
    exclude,    \* Run: exclude
    hostCounts, \* the finder's host count of every halo read by ReadRockstar
    fLines,     \* Run: fLines
    out,        \* the []string Run returns
    result,     \* "none", "rows", "error" (a returned error) or "panic"
    err,        \* which error or panic
    failed      \* the storage reads that failed during the run

vars == <<fname, file, catalog, pc, config, rawIds, ids, snaps, exclude,
          hostCounts, fLines, out, result, err, failed>>

(***************************************************************************)
(* ReadConfig and validate                                                 *)
(***************************************************************************)
\* value of a configuration variable: the default unless the file sets it
Get(f, default) == IF f = <<>> THEN default ELSE f[1]

NoVars ==
    [IDType |-> <<>>, IDs |-> <<>>, IDStart |-> <<>>, IDEnd |-> <<>>,
     Mult |-> <<>>, Snap |-> <<>>, ExclusionStrategy |-> <<>>,
     ExclusionRadiusMult |-> <<>>]

\* the defaults registered in ReadConfig, overridden by the file
ConfigVars(f) ==
    [idType              |-> Get(f.IDType, "m200m"),
     ids                 |-> Get(f.IDs, <<>>),
     idStart             |-> Get(f.IDStart, -1),
     idEnd               |-> Get(f.IDEnd, -1),
     mult                |-> Get(f.Mult, 1),
     snap                |-> Get(f.Snap, -1),
     exclusionStrategy   |-> Get(f.ExclusionStrategy, "subhalo"),
     exclusionRadiusMult |-> Get(f.ExclusionRadiusMult, 1)]

\* "" is nil; anything else names the error validate returns
validate(c) ==
    IF c.idType \notin {"halo-id", "m200m"} THEN "IDTypeUnrecognized"
    ELSE IF c.exclusionStrategy \notin {"none", "subhalo", "overlap"}
        THEN "ExclusionStrategyUnrecognized"
    ELSE IF c.exclusionStrategy = "overlap" /\ c.exclusionRadiusMult <= 0
        THEN "ExclusionRadiusMultNotPositive"
    ELSE IF Len(c.ids) = 0 /\ c.idStart = -1 /\ c.idEnd = -1 THEN "IDsNotSet"
    ELSE IF Len(c.ids) = 0 /\ c.idStart = -1 THEN "IDStartNotSet"
    ELSE IF Len(c.ids) = 0 /\ c.idEnd = -1 THEN "IDEndNotSet"
    ELSE IF Len(c.ids) = 0 /\ c.idEnd < c.idStart THEN "IDEndBeforeIDStart"
    ELSE IF c.snap = -1 THEN "SnapNotSet"
    ELSE IF c.snap < 0 THEN "SnapNegative"
    ELSE IF c.mult <= 0 THEN "MultNotPositive"
    ELSE ""

(***************************************************************************)
(* getIDs                                                                  *)
(***************************************************************************)
\* make([]int, n) panics for n < 0
getIDs(idStart, idEnd, idList) ==
    IF idStart # -1
    THEN IF idEnd - idStart < 0
         THEN [panic |-> TRUE, out |-> <<>>]
         ELSE [panic |-> FALSE,
               out |-> [i \in 1..(idEnd - idStart) |-> idStart + (i - 1)]]
    ELSE [panic |-> FALSE, out |-> idList]

(***************************************************************************)
(* memo.ReadSortedRockstarIDs (specification 4.2, 4.4)                     *)
(***************************************************************************)
\* SortedIDs(snapshot, maxRank): the whole catalog for maxRank = -1, else a
\* prefix of at least maxRank + 1 entries: the cached list of `cached'
\* entries when that is long enough, a re-read of maxRank + 1 otherwise.
\* A rank beyond the catalog is a RangeError, a failed read a CatalogIOError.
ReadSortedRockstarIDs(cat, maxID, ioOK, cached) ==
    IF ~ioOK THEN [err |-> "CatalogIOError", rids |-> <<>>]
    ELSE IF maxID = -1 THEN [err |-> "", rids |-> cat]
    ELSE IF maxID >= Len(cat) THEN [err |-> "RangeError", rids |-> <<>>]
    ELSE [err |-> "",
          rids |-> SubSeq(cat, 1, IF cached >= maxID + 1 THEN cached ELSE maxID + 1)]

(***************************************************************************)
(* convertSortedIDs                                                        *)
(***************************************************************************)
RECURSIVE maxRawID(_, _, _)
\* the loop of convertSortedIDs over rawIDs, maxID starting at 0
maxRawID(rawIDs, i, maxID) ==
    IF i > Len(rawIDs) THEN maxID
    ELSE maxRawID(rawIDs, i + 1, IF rawIDs[i] > maxID THEN rawIDs[i] ELSE maxID)

\* convertSortedIDs with the error of the read ignored: rids is nil
convertSortedIDsNoErrCheck(rawIDs, cat, ioOK, cached) ==
    LET read == ReadSortedRockstarIDs(cat, maxRawID(rawIDs, 1, 0), ioOK, cached)
        rids == read.rids
    IN  IF \E i \in 1..Len(rawIDs) : rawIDs[i] < 0 \/ rawIDs[i] >= Len(rids)
        THEN [status |-> "panic", err |-> "IndexOutOfRangeRids", ids |-> <<>>]
        ELSE [status |-> "ok", err |-> "",
              ids |-> [i \in 1..Len(rawIDs) |-> rids[rawIDs[i] + 1]]]

\* convertSortedIDs taking the halo of the rank's own position in the request
convertSortedIDsPositional(rawIDs, cat, ioOK, cached) ==
    LET read == ReadSortedRockstarIDs(cat, maxRawID(rawIDs, 1, 0), ioOK, cached)
        rids == read.rids
    IN  IF read.err # ""
        THEN [status |-> "error", err |-> read.err, ids |-> <<>>]
        ELSE IF \E i \in 1..Len(rawIDs) : rawIDs[i] < 0 \/ rawIDs[i] >= Len(rids)
        THEN [status |-> "panic", err |-> "IndexOutOfRangeRids", ids |-> <<>>]
        ELSE [status |-> "ok", err |-> "",
              ids |-> [i \in 1..Len(rawIDs) |->
                          IF i <= Len(rids) THEN rids[i] ELSE rids[rawIDs[i] + 1]]]

\* rids[rawIDs[i]] panics for an index outside rids
convertSortedIDs(rawIDs, cat, ioOK, cached) ==
    LET read == ReadSortedRockstarIDs(cat, maxRawID(rawIDs, 1, 0), ioOK, cached)
        rids == read.rids
    IN  IF read.err # ""
        THEN [status |-> "error", err |-> read.err, ids |-> <<>>]
        ELSE IF \E i \in 1..Len(rawIDs) : rawIDs[i] < 0 \/ rawIDs[i] >= Len(rids)
        THEN [status |-> "panic", err |-> "IndexOutOfRangeRids", ids |-> <<>>]
        ELSE [status |-> "ok", err |-> "",
              ids |-> [i \in 1..Len(rawIDs) |-> rids[rawIDs[i] + 1]]]

(***************************************************************************)
(* findOverlapSubs                                                         *)
(***************************************************************************)
RECURSIVE groupIdxs(_, _, _)
\* groupIdxs[snap]: the positions of the selection with that snapshot, ascending
groupIdxs(snaps_, snap, i) ==
    IF i > Len(snaps_) THEN <<>>
    ELSE (IF snaps_[i] = snap THEN <<i>> ELSE <<>>) \o groupIdxs(snaps_, snap, i + 1)

\* snapGroups[snap]: the IDs of the selection with that snapshot
snapGroups(rawIDs, snaps_, snap) ==
    LET idxs == groupIdxs(snaps_, snap, 1)
    IN  [k \in 1..Len(idxs) |-> rawIDs[idxs[k]]]

RECURSIVE searchID(_, _, _)
\* the linear search of rids for id, from position j: the first match breaks
\* the loop, the last position without a match is the error, and an empty
\* rids runs no iteration at all
searchID(rids, id, j) ==
    IF j > Len(rids) THEN [kind |-> "nothing", j |-> 0]
    ELSE IF rids[j] = id THEN [kind |-> "found", j |-> j]
    ELSE IF j = Len(rids) THEN [kind |-> "error", j |-> 0]
    ELSE searchID(rids, id, j + 1)

\* memo.ReadRockstar: the records of the halos ids, aligned with ids; none
\* when the read fails
ReadRockstar(rids, recOK) == IF recOK THEN rids ELSE <<>>

\* halo.NewGrid, Insert, NewSubhaloFinder, FindSubhalos: the finder holds one
\* host count per halo it was given; hc is what the overlap test counts on
\* the whole population
FindSubhalos(xs, hc) == SubSeq(hc, 1, Len(xs))

\* sf.HostCount(j): an index out of range beyond the halos of the finder
HostCount(sf, j) ==
    IF j > Len(sf) THEN [panic |-> TRUE, count |-> 0]
    ELSE [panic |-> FALSE, count |-> sf[j]]

\* the flag taken at the position i of the ID in its group
isSubPositional(sf, i, j) == HostCount(sf, IF i <= Len(sf) THEN i ELSE j).count > 0

\* isSub[origIdx] = sf.HostCount(j) > 0, j the position of the ID in rids
isSubAt(sf, i, j) == HostCount(sf, j).count > 0

RECURSIVE groupFlags(_, _, _, _, _, _)
\* the loop over one group
groupFlags(group, idxs, rids, sf, isSub, i) ==
    IF i > Len(group) THEN [status |-> "ok", err |-> "", isSub |-> isSub]
    ELSE LET s == searchID(rids, group[i], 1)
         IN  IF s.kind = "error"
             THEN [status |-> "error", err |-> "IDNotInHaloList", isSub |-> <<>>]
             ELSE IF s.kind = "nothing"
             THEN groupFlags(group, idxs, rids, sf, isSub, i + 1)
             ELSE IF HostCount(sf, s.j).panic
             THEN [status |-> "panic", err |-> "IndexOutOfRangeHostCount",
                   isSub |-> <<>>]
             ELSE groupFlags(group, idxs, rids, sf,
                             [isSub EXCEPT ![idxs[i]] = isSubAt(sf, i, s.j)], i + 1)

RECURSIVE overSnaps(_, _, _, _, _, _, _, _)
\* the loop over snapGroups; every group reads the same catalog here, since
\* Run gives every row the configured snapshot.  The error of ReadRockstar
\* is never looked at.
overSnaps(todo, rawIDs, snaps_, cat, idsOK, recOK, hc, acc) ==
    IF todo = {} \/ acc.status # "ok" THEN acc
    ELSE LET snap == CHOOSE s \in todo : TRUE
             read == ReadSortedRockstarIDs(cat, -1, idsOK, 0)
             sf   == FindSubhalos(ReadRockstar(read.rids, recOK), hc)
         IN  IF read.err # ""
             THEN [status |-> "error", err |-> read.err, isSub |-> <<>>]
             ELSE overSnaps(todo \ {snap}, rawIDs, snaps_, cat, idsOK, recOK, hc,
                            groupFlags(snapGroups(rawIDs, snaps_, snap),
                                       groupIdxs(snaps_, snap, 1),
                                       read.rids, sf, acc.isSub, 1))

\* hdOK, idsOK, recOK: whether ReadHeaders, ReadSortedRockstarIDs and
\* ReadRockstar succeed
findOverlapSubs(rawIDs, snaps_, cat, hdOK, idsOK, recOK, hc) ==
    IF Len(snaps_) = 0
    THEN [status |-> "panic", err |-> "IndexOutOfRangeSnaps0", isSub |-> <<>>]
    ELSE IF ~hdOK
    THEN [status |-> "error", err |-> "CatalogIOError", isSub |-> <<>>]
    ELSE overSnaps({snaps_[i] : i \in 1..Len(snaps_)}, rawIDs, snaps_,
                   cat, idsOK, recOK, hc,
                   [status |-> "ok", err |-> "",
                    isSub |-> [i \in 1..Len(rawIDs) |-> FALSE]])

(***************************************************************************)
(* Run: lines, filter, multiply                                            *)
(***************************************************************************)
\* catalog.FormatCols: one row per index, the integer columns in colOrder
FormatCols(ids_, snaps_) == [i \in 1..Len(ids_) |-> <<ids_[i], snaps_[i]>>]

\* catalog.CommentString: the header row naming the two columns
CommentString == "# Column contents: ID(0) Snapshot(1)"

RECURSIVE Filter(_, _, _)
Filter(lines, exclude_, i) ==
    IF i > Len(lines) THEN <<>>
    ELSE (IF ~exclude_[i] THEN <<lines[i]>> ELSE <<>>) \o Filter(lines, exclude_, i + 1)

RECURSIVE MultiplyInterleaved(_, _)
\* the two loops of Multiply exchanged
MultiplyInterleaved(fl, mult) ==
    IF mult <= 0 THEN <<>> ELSE fl \o MultiplyInterleaved(fl, mult - 1)

RECURSIVE Repeat(_, _)
Repeat(line, n) == IF n <= 0 THEN <<>> ELSE <<line>> \o Repeat(line, n - 1)

RECURSIVE Multiply(_, _)
Multiply(fl, mult) ==
    IF fl = <<>> THEN <<>> ELSE Repeat(Head(fl), mult) \o Multiply(Tail(fl), mult)

\* the skipped select: subhalo falls through like none
exclusionSwitchSkipsSubhalo(strategy) ==
    IF strategy = "overlap" THEN "overlap" ELSE "none"

\* the switch on config.exclusionStrategy: no default case
exclusionSwitch(strategy) ==
    IF strategy = "subhalo" THEN "panic"
    ELSE IF strategy = "overlap" THEN "overlap"
    ELSE "none"

(***************************************************************************)
(* Inputs                                                                  *)
(***************************************************************************)
IDVals == 0..MaxID

Opt(S) == {<<>>} \cup {<<v>> : v \in S}

IDLists(lo, hi) == UNION {[1..k -> IDVals] : k \in lo..hi}

\* catalogs: every HaloID at most once
Catalogs ==
    {c \in UNION {[1..k -> IDVals] : k \in 0..MaxHalos} :
        \A i, j \in 1..Len(c) : c[i] = c[j] => i = j}

RefCatalog == [i \in 1..MaxHalos |-> MaxHalos - i]

\* every way of setting or leaving out the variables of id.config (files
\* that parse), read against one catalog
AnyFiles ==
    [IDType              : Opt({"halo-id", "m200m", "bogus"}),
     IDs                 : Opt(IDLists(1, 1)),
     IDStart             : Opt(IDVals),
     IDEnd               : Opt(IDVals),
     Mult                : Opt({0, MaxMult}),
     Snap                : Opt({-2, SnapMin - 1, SnapMin, SnapMax + 1}),
     ExclusionStrategy   : Opt({"none", "subhalo", "overlap", "bogus"}),
     ExclusionRadiusMult : Opt({0})]

\* files with an explicit IDs list, read against every catalog
ListFiles ==
    [IDType              : {<<"halo-id">>, <<"m200m">>},
     IDs                 : {<<l>> : l \in IDLists(1, MaxLen)},
     IDStart             : {<<>>},
     IDEnd               : {<<>>},
     Mult                : {<<m>> : m \in 1..MaxMult},
     Snap                : {<<SnapMin>>},
     ExclusionStrategy   : {<<"none">>, <<"subhalo">>, <<"overlap">>},
     ExclusionRadiusMult : {<<>>}]

Init ==
    /\ \/ fname = "" /\ file = NoVars /\ catalog = RefCatalog
       \/ fname = "id.config" /\ file \in AnyFiles /\ catalog = RefCatalog
       \/ fname = "id.config" /\ file \in ListFiles /\ catalog \in Catalogs
    /\ pc = "ReadConfig"
    /\ config = ConfigVars(NoVars)
    /\ rawIds = <<>>
    /\ ids = <<>>
    /\ snaps = <<>>
    /\ exclude = <<>>
    /\ hostCounts = <<>>
    /\ fLines = <<>>
    /\ out = <<>>
    /\ result = "none"
    /\ err = ""
    /\ failed = {}

(***************************************************************************)
(* Actions                                                                 *)
(***************************************************************************)
\* Run returns (nil, error), or panics
Stop(res, e) ==
    /\ pc' = "Done"
    /\ result' = res
    /\ err' = e

\* ReadConfig: no validation without a file name
ReadConfig ==
    /\ pc = "ReadConfig"
    /\ config' = ConfigVars(file)
    /\ IF fname = "" \/ validate(ConfigVars(file)) = ""
       THEN pc' = "Run" /\ UNCHANGED <<result, err>>
       ELSE Stop("error", validate(ConfigVars(file)))
    /\ UNCHANGED <<fname, file, catalog, rawIds, ids, snaps, exclude,
                   hostCounts, fLines, out, failed>>

\* Run up to rawIds := getIDs(...)
RunGetIDs ==
    /\ pc = "Run"
    /\ LET r == getIDs(config.idStart, config.idEnd, config.ids)
       IN  IF config.snap = -1
           THEN Stop("error", "NoConfigOrSnapNotSet") /\ UNCHANGED rawIds
           ELSE IF config.snap < SnapMin \/ config.snap > SnapMax
           THEN Stop("error", "SnapOutOfRange") /\ UNCHANGED rawIds
           ELSE IF r.panic
           THEN Stop("panic", "MakeSliceLenOutOfRange") /\ UNCHANGED rawIds
           ELSE /\ rawIds' = r.out
                /\ pc' = "Resolve"
                /\ UNCHANGED <<result, err>>
    /\ UNCHANGED <<fname, file, catalog, config, ids, snaps, exclude,
                   hostCounts, fLines, out, failed>>

\* case "halo-id": snaps[0] of an empty selection is an index out of range
RunHaloID ==
    /\ pc = "Resolve"
    /\ config.idType = "halo-id"
    /\ \E bufOK \in BOOLEAN :
          IF Len(rawIds) = 0
          THEN Stop("panic", "IndexOutOfRangeSnaps0") /\ UNCHANGED <<ids, snaps, failed>>
          ELSE IF ~bufOK
          THEN /\ Stop("error", "CatalogIOError")
               /\ failed' = failed \cup {"getVectorBuffer"}
               /\ UNCHANGED <<ids, snaps>>
          ELSE /\ snaps' = [i \in 1..Len(rawIds) |-> config.snap]
               /\ ids' = rawIds
               /\ pc' = "Exclude"
               /\ UNCHANGED <<result, err, failed>>
    /\ UNCHANGED <<fname, file, catalog, config, rawIds, exclude, hostCounts,
                   fLines, out>>

\* case "m200m", and the default case
RunM200m ==
    /\ pc = "Resolve"
    /\ config.idType # "halo-id"
    /\ \E bufOK \in BOOLEAN, ioOK \in BOOLEAN, cached \in 0..Len(catalog) :
          LET r == convertSortedIDs(rawIds, catalog, ioOK, cached)
          IN  IF config.idType # "m200m"
              THEN Stop("panic", "Impossible") /\ UNCHANGED <<ids, snaps, failed>>
              ELSE IF Len(rawIds) = 0
              THEN Stop("panic", "IndexOutOfRangeSnaps0") /\ UNCHANGED <<ids, snaps, failed>>
              ELSE IF ~bufOK
              THEN /\ Stop("error", "CatalogIOError")
                   /\ failed' = failed \cup {"getVectorBuffer"}
                   /\ UNCHANGED <<ids, snaps>>
              ELSE IF r.status # "ok"
              THEN /\ Stop(r.status, r.err)
                   /\ failed' = IF ioOK THEN failed
                                ELSE failed \cup {"ReadSortedRockstarIDs"}
                   /\ UNCHANGED <<ids, snaps>>
              ELSE /\ snaps' = [i \in 1..Len(rawIds) |-> config.snap]
                   /\ ids' = r.ids
                   /\ pc' = "Exclude"
                   /\ UNCHANGED <<result, err, failed>>
    /\ UNCHANGED <<fname, file, catalog, config, rawIds, exclude, hostCounts,
                   fLines, out>>

\* case "none", and any strategy the switch has no case for
RunExcludeNone ==
    /\ pc = "Exclude"
    /\ exclusionSwitch(config.exclusionStrategy) = "none"
    /\ exclude' = [i \in 1..Len(ids) |-> FALSE]
    /\ pc' = "Generate"
    /\ UNCHANGED <<fname, file, catalog, config, rawIds, ids, snaps,
                   hostCounts, fLines, out, result, err, failed>>

\* case "subhalo"
RunExcludeSubhalo ==
    /\ pc = "Exclude"
    /\ exclusionSwitch(config.exclusionStrategy) = "panic"
    /\ Stop("panic", "SubhaloNotImplemented")
    /\ UNCHANGED <<fname, file, catalog, config, rawIds, ids, snaps, exclude,
                   hostCounts, fLines, out, failed>>

\* case "overlap": hc is what the finder counts on the halos ReadRockstar returns
RunExcludeOverlap ==
    /\ pc = "Exclude"
    /\ exclusionSwitch(config.exclusionStrategy) = "overlap"
    /\ \E hdOK \in BOOLEAN, idsOK \in BOOLEAN, recOK \in BOOLEAN,
          hc \in [1..Len(catalog) -> 0..1] :
          LET r == findOverlapSubs(ids, snaps, catalog, hdOK, idsOK, recOK, hc)
          IN  /\ (~hdOK => ~idsOK /\ ~recOK)
              /\ (~idsOK => ~recOK)
              /\ failed' = failed \cup
                    (IF ~hdOK THEN {"ReadHeaders"}
                     ELSE IF ~idsOK THEN {"ReadSortedRockstarIDs"}
                     ELSE IF ~recOK THEN {"ReadRockstar"}
                     ELSE {})
              /\ hostCounts' = IF hdOK /\ idsOK
                                THEN FindSubhalos(ReadRockstar(catalog, recOK), hc)
                                ELSE <<>>
              /\ IF r.status = "ok"
                 THEN /\ exclude' = r.isSub
                      /\ pc' = "Generate"
                      /\ UNCHANGED <<result, err>>
                 ELSE Stop(r.status, r.err) /\ UNCHANGED exclude
    /\ UNCHANGED <<fname, file, catalog, config, rawIds, ids, snaps, fLines, out>>

\* Generate lines, Filter, Multiply, return
RunGenerate ==
    /\ pc = "Generate"
    /\ fLines' = Filter(FormatCols(ids, snaps), exclude, 1)
    /\ out' = <<CommentString>> \o Multiply(fLines', config.mult)
    /\ pc' = "Done"
    /\ result' = "rows"
    /\ UNCHANGED <<fname, file, catalog, config, rawIds, ids, snaps, exclude,
                   hostCounts, err, failed>>

Next ==
    \/ ReadConfig
    \/ RunGetIDs
    \/ RunHaloID
    \/ RunM200m
    \/ RunExcludeNone
    \/ RunExcludeSubhalo
    \/ RunExcludeOverlap
    \/ RunGenerate

Spec == Init /\ [][Next]_vars

TypeOK ==
    /\ pc \in {"ReadConfig", "Run", "Resolve", "Exclude", "Generate", "Done"}
    /\ result \in {"none", "rows", "error", "panic"}
    /\ (pc = "Done") = (result # "none")

(***************************************************************************)
(* Properties                                                              *)
(***************************************************************************)
\* the data rows Run returned, after the header row
DataRows == Tail(out)

\* ReadConfig read a file and validate accepted it
Validated == pc # "ReadConfig" /\ fname # "" /\ validate(config) = ""

\* the selection was resolved: ids and snaps are set
Resolved == snaps # <<>>

Returned == pc = "Done" /\ result = "rows"

\* the positions of the selection that survive the filter
Kept == {i \in 1..Len(ids) : ~exclude[i]}

\* C1: the data rows are the surviving rows, in the order of the selection,
\* each repeated mult times with its copies adjacent.
C1_MultiplicityExpansion ==
    Returned =>
        /\ Len(fLines) = Cardinality(Kept)
        /\ \A i \in Kept :
              fLines[Cardinality({j \in Kept : j <= i})] = <<ids[i], snaps[i]>>
        /\ Len(DataRows) = config.mult * Len(fLines)
        /\ \A k \in 1..Len(DataRows) :
              DataRows[k] = fLines[((k - 1) \div config.mult) + 1]

C1_Witness ==
    /\ Returned
    /\ config.mult = 3
    /\ Len(fLines) = 2
    /\ fLines[1] # fLines[2]

\* C2: under overlap a selected pair is missing from the output exactly when
\* the halo of the catalog with that very ID has a host, wherever the pair
\* stands in the selection.
C2_ExclusionByExactID ==
    (Returned /\ config.exclusionStrategy = "overlap") =>
        \A i \in 1..Len(ids) :
            (~ \E k \in 1..Len(DataRows) : DataRows[k] = <<ids[i], snaps[i]>>)
            <=> (\E j \in 1..Len(catalog) : catalog[j] = ids[i] /\ hostCounts[j] > 0)

C2_Witness ==
    /\ Returned
    /\ config.exclusionStrategy = "overlap"
    /\ Len(DataRows) > 0
    /\ \E i \in 1..Len(ids), j \in 1..Len(catalog) :
          /\ i # j
          /\ i <= Len(catalog)
          /\ catalog[j] = ids[i]
          /\ hostCounts[j] > 0
          /\ hostCounts[i] = 0

\* every requested rank is a rank of the catalog
RanksInCatalog ==
    rawIds # <<>> /\ \A i \in 1..Len(rawIds) : rawIds[i] \in 0..(Len(catalog) - 1)

\* C3: in m200m mode ranks within the catalog resolve to one HaloID per rank,
\* in input order, the i-th being the halo of that rank in the sorted list,
\* each row with the configured snapshot; with strategy none these are the
\* rows returned (mult times each).
C3_RanksResolveToSortedIDs ==
    /\ (config.idType = "m200m" /\ Resolved) =>
          /\ Len(ids) = Len(rawIds)
          /\ Len(snaps) = Len(rawIds)
          /\ \A i \in 1..Len(rawIds) :
                ids[i] = catalog[rawIds[i] + 1] /\ snaps[i] = config.snap
    /\ (pc = "Done" /\ config.idType = "m200m" /\ RanksInCatalog /\ failed = {}
            /\ config.exclusionStrategy = "none") =>
          /\ result = "rows"
          /\ Len(DataRows) = config.mult * Len(rawIds)
          /\ \A i \in 1..Len(rawIds), m \in 1..config.mult :
                DataRows[(i - 1) * config.mult + m]
                    = <<catalog[rawIds[i] + 1], config.snap>>

C3_Witness ==
    /\ Returned
    /\ config.idType = "m200m"
    /\ config.exclusionStrategy = "none"
    /\ Len(rawIds) = 2
    /\ rawIds[1] > rawIds[2]
    /\ \E i \in 1..Len(rawIds) : ids[i] # rawIds[i]

C5_ReadFailureAborts ==
    failed # {} => pc = "Done" /\ result = "error" /\ out = <<>>

\* C6: in halo-id mode a requested ID that the catalog lacks ends the run
\* with the RangeError and no row, under none as under overlap, whatever the
\* catalog size.
C6_AbsentIDIsRangeError ==
    (pc = "Done" /\ config.idType = "halo-id" /\ rawIds # <<>> /\ failed = {}
        /\ config.exclusionStrategy \in {"none", "overlap"}
        /\ \E i \in 1..Len(rawIds) : \A j \in 1..Len(catalog) : catalog[j] # rawIds[i]) =>
        result = "error" /\ err \in {"RangeError", "IDNotInHaloList"} /\ out = <<>>

C8_RangeInclusive ==
    (pc = "Resolve" /\ file.IDs = <<>> /\ config.idStart # -1 /\ config.idEnd # -1
        /\ config.idStart <= config.idEnd) =>
        /\ Len(rawIds) = config.idEnd - config.idStart + 1
        /\ \A i \in 1..Len(rawIds) : rawIds[i] = config.idStart + (i - 1)
        /\ rawIds[Len(rawIds)] = config.idEnd

\* only Snap and IDs are set in the file
OnlyRequired ==
    /\ fname # ""
    /\ file.Snap # <<>> /\ file.IDs # <<>>
    /\ file.IDType = <<>> /\ file.IDStart = <<>> /\ file.IDEnd = <<>>
    /\ file.Mult = <<>> /\ file.ExclusionStrategy = <<>>
    /\ file.ExclusionRadiusMult = <<>>

\* C9: a file that leaves ExclusionStrategy out runs with overlap (and
\* ExclusionRadiusMult 1), so a run of a file with only the required
\* variables returns rows.
C9_DefaultStrategyOverlap ==
    /\ (Validated /\ file.ExclusionStrategy = <<>>) =>
          /\ config.exclusionStrategy = "overlap"
          /\ file.ExclusionRadiusMult = <<>> => config.exclusionRadiusMult = 1
    /\ (pc = "Done" /\ OnlyRequired /\ RanksInCatalog /\ failed = {}) =>
          result = "rows"

\* C10: for a validated configuration with Snap in range the selection of
\* getIDs has a non-negative length and Run never reads snaps[0] of an empty
\* selection.
C10_SelectionNeverEmptyOrNegative ==
    (Validated /\ config.snap >= SnapMin /\ config.snap <= SnapMax /\ pc = "Done") =>
        ~(result = "panic" /\ err \in {"MakeSliceLenOutOfRange", "IndexOutOfRangeSnaps0"})

====
